---- MODULE Spec2Model ----
(***************************************************************************)
(* HousePlants API: the plant, tag and care-tip endpoints                  *)
(* (app/plant/urls.py, views.py, serializers.py) over the tables of        *)
(* app/core/models.py.  One action per request handler; a handler's   *)
(* database calls commit one by one (no transaction is opened), so an      *)
(* exception raised halfway leaves what was written before it.             *)
(* Spec is the API served one request at a time; UserSpec is one call of   *)
(* the user manager (core/models.py); ConcSpec is two plant writes served  *)
(* at the same time, one database call per step.                           *)
(***************************************************************************)
EXTENDS Integers, Sequences, FiniteSets, TLC

\* ---------------------------------------------------------------- bounds
\* Auto-increment ids are never reused; a request that would need an id
\* beyond these is not issued.
MaxPlantId == 2
MaxTagId == 2
MaxCareTipId == 1
\* longest inline label list / id list of a query parameter
MaxListLen == 2
\* requests of one run that write to the database
MaxWrites == 3
\* longest email passed to create_user
MaxEmailLen == 3

Users == {"u1", "u2"}
Names == {"a", "b"}
Titles == {"t1", "t2"}
Links == {"l1"}

PlantIds == 1..MaxPlantId
TagIds == 1..MaxTagId
CareTipIds == 1..MaxCareTipId

\* sequences over S of length 0..n
RECURSIVE SeqsUpTo(_, _)
SeqsUpTo(S, n) ==
    IF n = 0 THEN {<<>>}
    ELSE LET shorter == SeqsUpTo(S, n - 1)
         IN shorter \cup {Append(s, x) : s \in shorter, x \in S}

NameLists == SeqsUpTo(Names, MaxListLen)

Range(s) == {s[i] : i \in 1..Len(s)}
MaxOf(S) == IF S = {} THEN 0 ELSE CHOOSE x \in S : \A y \in S : y <= x

VARIABLES
    users,            \* rows of core_user, by their email
    plants,           \* rows of core_plant: [id, user, title, link, image]
    tags,             \* rows of core_tag: [id, name, user]
    care_tips,        \* rows of core_caretip: [id, name, user]
    plant_tags,       \* rows of core_plant_tags: <<plant id, tag id>>
    plant_care_tips,  \* rows of core_plant_care_tips: <<plant id, care tip id>>
    seqs,             \* next auto-increment id of each table
    writes,           \* requests so far that wrote to the database
    resp              \* the request being answered and its response

store == <<users, plants, tags, care_tips, plant_tags, plant_care_tips, seqs>>
vars == <<users, plants, tags, care_tips, plant_tags, plant_care_tips, seqs, writes, resp>>

\* ---------------------------------------------------------------- models.py
\* Plant(user, title, link, image): image is null until uploaded; link is
\* blank by default.  title stands for the required columns (title, price),
\* link for the optional ones (link, description): the serializer treats all
\* of them through the same loop.
Plant(id, user, title, link) ==
    [id |-> id, user |-> user, title |-> title, link |-> link, image |-> FALSE]

\* Tag(name, user) / CareTip(name, user): no uniqueness constraint.
Label(id, name, user) == [id |-> id, name |-> name, user |-> user]

Row(table, id) == CHOOSE r \in table : r.id = id
\* label rows attached to a plant
Attached(table, links, pk) == {r \in table : <<pk, r.id>> \in links}
NamesOf(rows) == {r.name : r \in rows}
Ids(table) == {r.id : r \in table}

\* DeletePlant with the labels of the plant deleted along with it
DeletePlantAndLabels(db, pk) ==
    [db EXCEPT !.plants = {r \in db.plants : r.id # pk},
               !.plant_tags = {l \in db.plant_tags : l[1] # pk},
               !.plant_care_tips = {l \in db.plant_care_tips : l[1] # pk},
               !.tags = {r \in db.tags : <<pk, r.id>> \notin db.plant_tags},
               !.care_tips = {r \in db.care_tips :
                                 <<pk, r.id>> \notin db.plant_care_tips}]

\* Plant.delete(): the row and, with it, its rows in the two many-to-many
\* relations (tags, care_tips); the Tag and CareTip rows are another table's.
DeletePlant(db, pk) ==
    [db EXCEPT !.plants = {r \in db.plants : r.id # pk},
               !.plant_tags = {l \in db.plant_tags : l[1] # pk},
               !.plant_care_tips = {l \in db.plant_care_tips : l[1] # pk}]

\* User(email unique, is_staff, is_superuser); the password hash takes no
\* part in what follows and is left out.
UserRow(email, staff) ==
    [email |-> email, is_staff |-> staff, is_superuser |-> staff]

\* An email is a sequence of characters; the argument of create_user is a
\* string or None.
Chars == {"a", "A", "@", " "}
Lower == [c \in Chars |-> IF c = "A" THEN "a" ELSE c]
Emails == SeqsUpTo(Chars, MaxEmailLen)
Str(email) == [none |-> FALSE, str |-> email]
None == [none |-> TRUE, str |-> <<>>]
EmailArgs == {Str(e) : e \in Emails} \cup {None}

\* bool(email) is false: None or the empty string
Falsy(arg) == arg.none \/ arg.str = <<>>

\* str.strip(): without its leading and trailing whitespace
RECURSIVE Strip(_)
Strip(s) ==
    IF s = <<>> THEN s
    ELSE IF Head(s) = " " THEN Strip(Tail(s))
    ELSE IF s[Len(s)] = " " THEN Strip(SubSeq(s, 1, Len(s) - 1))
    ELSE s

\* index of the last '@' of s, 0 when it has none
LastAt(s) == MaxOf({i \in 1..Len(s) : s[i] = "@"})

\* NormalizeEmail that lowercases the whole address
NormalizeEmailLowerAll(email) == [i \in 1..Len(email) |-> Lower[email[i]]]

\* self.normalize_email(email) (BaseUserManager): email.strip() is split at
\* its last '@' and put together again with the domain part lowercased; an
\* email without '@' is returned as it came.
NormalizeEmail(email) ==
    LET t == Strip(email)
        k == LastAt(t)
    IN  IF k = 0 THEN email
        ELSE SubSeq(t, 1, k) \o [i \in 1..(Len(t) - k) |-> Lower[t[k + i]]]

\* CreateUser without the check of the email
CreateUserUnchecked(table, arg) ==
    LET email == NormalizeEmail(arg.str)
    IN  IF \E r \in table : r.email = email
        THEN [raised |-> "IntegrityError", users |-> table]
        ELSE [raised |-> "", users |-> table \cup {UserRow(email, FALSE)}]

\* UserManager.create_user(email, password) on the user table: what it
\* raises, if anything, and the table after it.  save() raises
\* IntegrityError when the email is another row's (unique=True).
CreateUser(table, arg) ==
    IF Falsy(arg)
    THEN [raised |-> "ValueError", users |-> table]
    ELSE LET email == NormalizeEmail(arg.str)
         IN  IF \E r \in table : r.email = email
             THEN [raised |-> "IntegrityError", users |-> table]
             ELSE [raised |-> "", users |-> table \cup {UserRow(email, FALSE)}]

\* UserManager.create_superuser(email, password): create_user, then the two
\* flags are set and the row is saved again.
CreateSuperuser(table, arg) ==
    LET made == CreateUser(table, arg)
    IN  IF made.raised # "" THEN made
        ELSE [raised |-> "",
              users |-> table \cup {UserRow(NormalizeEmail(arg.str), TRUE)}]

\* ---------------------------------------------------------------- urls.py
\* router.register(prefix, viewset): the route basenames the router serves
\* ('plant:plant-list', 'plant:tag-list', ...), named after each registered
\* viewset's model.  A request for any other route gets 404 from the resolver.
Registry == {"plant", "tag"}
Routed(basename) == basename \in Registry

\* ---------------------------------------------------------------- responses
NoKeys == {}
Response(op, user, pk, status) ==
    [op |-> op, user |-> user, pk |-> pk, status |-> status, rows |-> <<>>,
     keys |-> NoKeys, owner |-> "", tags |-> <<>>, care_tips |-> <<>>,
     tagsQ |-> <<>>, careQ |-> <<>>, assigned |-> ""]

\* ---------------------------------------------------------------- serializers.py
\* PlantSerializer.Meta.fields / PlantDetailSerializer.Meta.fields: the keys of
\* a payload the serializer reads.  Any other key ("user") is dropped.
SerializerFields == {"title", "link", "tags", "care_tips"}
PayloadKeys == SerializerFields \cup {"user"}

\* A request body: the keys it carries and their values (a key that is not
\* carried has the neutral value).
Payload(keys, title, link, user, tagNames, careTipNames) ==
    [keys |-> keys, title |-> title, link |-> link, user |-> user,
     tags |-> tagNames, care_tips |-> careTipNames]

\* Model.objects.get_or_create(user=auth_user, name=name) on a label table:
\* the row matching both, created when there is none; get() raises
\* MultipleObjectsReturned when several rows match.
\* Matching that looks at the name alone
MatchingAnyUser(table, user, name) == {r \in table : r.name = name}

Matching(table, user, name) == {r \in table : r.user = user /\ r.name = name}

GetOrCreate(table, next, user, name) ==
    LET found == Matching(table, user, name)
    IN  IF Cardinality(found) > 1
        THEN [raised |-> TRUE, id |-> 0, table |-> table, next |-> next]
        ELSE IF found = {}
        THEN [raised |-> FALSE, id |-> next,
              table |-> table \cup {Label(next, name, user)}, next |-> next + 1]
        ELSE [raised |-> FALSE, id |-> (CHOOSE r \in found : TRUE).id,
              table |-> table, next |-> next]

\* _get_or_create_tags / _get_or_create_care_tips: for each listed name in
\* turn, get or create the row and add it to the plant's relation.  links is
\* the relation's table; raised tells that the loop stopped on an exception,
\* with everything done before it kept.
RECURSIVE GetOrCreateLabels(_, _, _, _, _, _)
GetOrCreateLabels(names, plantId, user, table, next, links) ==
    IF names = <<>>
    THEN [raised |-> FALSE, table |-> table, next |-> next, links |-> links]
    ELSE LET got == GetOrCreate(table, next, user, Head(names))
         IN  IF got.raised
             THEN [raised |-> TRUE, table |-> table, next |-> next, links |-> links]
             ELSE GetOrCreateLabels(Tail(names), plantId, user, got.table,
                                    got.next, links \cup {<<plantId, got.id>>})

\* Clear that removes nothing
ClearNothing(links, plantId) == links

\* instance.tags.clear() / instance.care_tips.clear()
Clear(links, plantId) == {l \in links : l[1] # plantId}

\* The database after PlantSerializer.create(validated_data) with
\* user=request.user (perform_create): the plant row, then the tags, then the
\* care tips.
SerializerCreate(user, payload) ==
    LET id == seqs.plant
        tagNames == IF "tags" \in payload.keys THEN payload.tags ELSE <<>>
        careNames == IF "care_tips" \in payload.keys THEN payload.care_tips ELSE <<>>
        link == IF "link" \in payload.keys THEN payload.link ELSE ""
        t == GetOrCreateLabels(tagNames, id, user, tags, seqs.tag, plant_tags)
        c == IF t.raised
             THEN [raised |-> TRUE, table |-> care_tips, next |-> seqs.care_tip,
                   links |-> plant_care_tips]
             ELSE GetOrCreateLabels(careNames, id, user, care_tips,
                                    seqs.care_tip, plant_care_tips)
    IN  [raised |-> c.raised,
         plants |-> plants \cup {Plant(id, user, payload.title, link)},
         tags |-> t.table, plant_tags |-> t.links,
         care_tips |-> c.table, plant_care_tips |-> c.links,
         seqs |-> [plant |-> id + 1, tag |-> t.next, care_tip |-> c.next]]

\* SetAttrs with the user key of the payload written to the row as well
SetAttrsAndUser(instance, payload) ==
    [instance EXCEPT
        !.title = IF "title" \in payload.keys THEN payload.title ELSE @,
        !.link = IF "link" \in payload.keys THEN payload.link ELSE @,
        !.user = IF "user" \in payload.keys THEN payload.user ELSE @]

\* SetAttrs with every field the payload leaves out reset to its default
SetAttrsOrDefault(instance, payload) ==
    [instance EXCEPT
        !.title = IF "title" \in payload.keys THEN payload.title ELSE @,
        !.link = IF "link" \in payload.keys THEN payload.link ELSE ""]

\* setattr(instance, attr, value) for the validated scalar fields
SetAttrs(instance, payload) ==
    [instance EXCEPT
        !.title = IF "title" \in payload.keys THEN payload.title ELSE @,
        !.link = IF "link" \in payload.keys THEN payload.link ELSE @]

\* The database after PlantSerializer.update(instance, validated_data) by
\* the requesting user.
SerializerUpdate(user, instance, payload) ==
    LET id == instance.id
        t == IF "tags" \in payload.keys
             THEN GetOrCreateLabels(payload.tags, id, user, tags, seqs.tag,
                                    Clear(plant_tags, id))
             ELSE [raised |-> FALSE, table |-> tags, next |-> seqs.tag,
                   links |-> plant_tags]
        c == IF ~t.raised /\ "care_tips" \in payload.keys
             THEN GetOrCreateLabels(payload.care_tips, id, user, care_tips,
                                    seqs.care_tip, Clear(plant_care_tips, id))
             ELSE [raised |-> t.raised, table |-> care_tips,
                   next |-> seqs.care_tip, links |-> plant_care_tips]
    IN  [raised |-> c.raised,
         plants |-> IF c.raised THEN plants
                    ELSE (plants \ {instance}) \cup {SetAttrs(instance, payload)},
         tags |-> t.table, plant_tags |-> t.links,
         care_tips |-> c.table, plant_care_tips |-> c.links,
         seqs |-> [seqs EXCEPT !.tag = t.next, !.care_tip = c.next]]

\* is_valid(): a required field (title, price) must be present unless the
\* update is partial.
IsValid(payload, partial) == partial \/ "title" \in payload.keys

\* ---------------------------------------------------------------- views.py
\* A query parameter holding a comma separated id list is modelled split at
\* its commas: a sequence of decimal tokens, empty when the parameter is
\* absent or empty (both falsy in get_queryset).
Decimal == <<"1", "2", "3", "4", "5", "6", "7", "8", "9">>
ToInt(str) == CHOOSE i \in 1..Len(Decimal) : Decimal[i] = str

\* PlantViewSet._params_to_ints
ParamsToInts(qs) == [i \in 1..Len(qs) |-> ToInt(qs[i])]

\* Distinct that keeps every row
DistinctOff(rows) == rows

\* queryset.distinct(): each row once, first occurrence kept
RECURSIVE Distinct(_)
Distinct(rows) ==
    IF rows = <<>> THEN <<>>
    ELSE LET n == Len(rows)
             d == Distinct(SubSeq(rows, 1, n - 1))
         IN  IF rows[n] \in Range(d) THEN d ELSE Append(d, rows[n])

\* n copies of a row
RECURSIVE Copies(_, _)
Copies(row, n) == IF n = 0 THEN <<>> ELSE <<row>> \o Copies(row, n - 1)

\* The rows of a join, one table row after the other in id order:
\* times[id] rows for the row of that id.
RECURSIVE JoinRows(_, _)
JoinRows(times, maxId) ==
    IF maxId = 0 THEN <<>>
    ELSE JoinRows(times, maxId - 1)
         \o (IF maxId \in DOMAIN times THEN Copies(maxId, times[maxId]) ELSE <<>>)

\* queryset.order_by('-field'): every arrangement of the rows in which the
\* field (key[row]) never grows from a row to the next; rows that tie come
\* in any order.
OrderByDesc(rows, key) ==
    LET n == Len(rows)
        perms == {f \in [1..n -> 1..n] : \A i, j \in 1..n : i # j => f[i] # f[j]}
        arranged == {[i \in 1..n |-> rows[f[i]]] : f \in perms}
    IN  {s \in arranged : \A i \in 1..(n - 1) : key[s[i]] >= key[s[i + 1]]}

\* FilterUser that keeps every user's rows
FilterUserOff(table, user) == table

\* queryset.filter(user=self.request.user)
FilterUser(table, user) == {r \in table : r.user = user}

\* PlantViewSet.get_queryset: the ids of the rows the view works on, in
\* response order.  filter(tags__id__in=...) joins core_plant_tags and
\* filter(care_tips__id__in=...) joins core_plant_care_tips, so a plant comes
\* once per matching pair of links before distinct().
PlantQuerySet(user, tagsQ, careQ) ==
    LET tagIds == Range(ParamsToInts(tagsQ))
        careIds == Range(ParamsToInts(careQ))
        TagLinks(p) == IF tagsQ # <<>>
                       THEN Cardinality({l \in plant_tags :
                                            l[1] = p /\ l[2] \in tagIds})
                       ELSE 1
        CareLinks(p) == IF careQ # <<>>
                        THEN Cardinality({l \in plant_care_tips :
                                             l[1] = p /\ l[2] \in careIds})
                        ELSE 1
        owned == Ids(FilterUser(plants, user))
        times == [p \in owned |-> TagLinks(p) * CareLinks(p)]
        joined == JoinRows(times, MaxOf(owned))
    IN  OrderByDesc(Distinct(joined), [p \in owned |-> p])

\* order of names under order_by('-name')
NameRank == [n \in Names |-> IF n = "a" THEN 1 ELSE 2]

\* BasePlantAttrViewSet.get_queryset on a label table with its relation to
\* plants: filter(plant__isnull=False) joins the relation, so a label comes
\* once per plant it is attached to before distinct().
\* bool(int(query_params.get('assigned_only', 0))); "" is the absent parameter
AssignedOnly(param) ==
    LET n == IF param = "" \/ param = "0" THEN 0 ELSE ToInt(param)
    IN  n # 0

LabelQuerySet(table, links, user, param) ==
    LET owned == Ids(FilterUser(table, user))
        times == [t \in owned |-> IF AssignedOnly(param)
                                  THEN Cardinality({l \in links : l[2] = t})
                                  ELSE 1]
        joined == JoinRows(times, MaxOf(owned))
    IN  OrderByDesc(Distinct(joined), [t \in owned |-> NameRank[Row(table, t).name]])

\* get_object(): the row of that pk in the view's queryset, or Http404.
Found(queryset, pk) == \E rows \in queryset : pk \in Range(rows)

\* ---------------------------------------------------------------- requests
\* id lists of a query parameter: ascending, without repetition
RECURSIVE IdLists(_, _)
IdLists(maxId, n) ==
    IF n = 0 THEN {<<>>}
    ELSE LET shorter == IdLists(maxId, n - 1)
         IN shorter \cup {Append(s, Decimal[i]) : s \in shorter, i \in 1..maxId}

Ascending(qs) == \A i \in 1..(Len(qs) - 1) : ToInt(qs[i]) < ToInt(qs[i + 1])
TagQueries == {qs \in IdLists(MaxTagId, MaxListLen) : Ascending(qs)}
CareTipQueries == {qs \in IdLists(MaxCareTipId, MaxListLen) : Ascending(qs)}
AssignedParams == {"", "0", "1"}

\* Request bodies.  LabelPayloads vary the inline label lists, ScalarPayloads
\* the scalar fields and the (unknown to the serializer) user key.
CareTipLists == SeqsUpTo({"a"}, 1)

LabelPayloads ==
    {Payload(keys, IF "title" \in keys THEN "t1" ELSE "", "", "",
                   IF "tags" \in keys THEN tn ELSE <<>>,
                   IF "care_tips" \in keys THEN cn ELSE <<>>) :
        keys \in SUBSET {"title", "tags", "care_tips"},
        tn \in NameLists, cn \in CareTipLists}

ScalarPayloads ==
    {Payload(keys, IF "title" \in keys THEN t ELSE "",
                   IF "link" \in keys THEN l ELSE "",
                   IF "user" \in keys THEN u ELSE "", <<>>, <<>>) :
        keys \in SUBSET {"title", "link", "user"},
        t \in Titles, l \in Links, u \in Users}

Payloads == LabelPayloads \cup ScalarPayloads

WithinBounds(db) ==
    /\ writes < MaxWrites
    /\ db.seqs.plant <= MaxPlantId + 1
    /\ db.seqs.tag <= MaxTagId + 1
    /\ db.seqs.care_tip <= MaxCareTipId + 1

\* The handler's writes, each committed as it is made.
Commit(db) ==
    /\ WithinBounds(db)
    /\ users' = users
    /\ plants' = db.plants
    /\ tags' = db.tags
    /\ care_tips' = db.care_tips
    /\ plant_tags' = db.plant_tags
    /\ plant_care_tips' = db.plant_care_tips
    /\ seqs' = db.seqs
    /\ writes' = writes + 1

Database ==
    [plants |-> plants, tags |-> tags, care_tips |-> care_tips,
     plant_tags |-> plant_tags, plant_care_tips |-> plant_care_tips,
     seqs |-> seqs]

NoWrite == UNCHANGED <<store, writes>>

WithPayload(r, payload) ==
    [r EXCEPT !.keys = payload.keys, !.owner = payload.user,
              !.tags = payload.tags, !.care_tips = payload.care_tips]

\* The server answers one request at a time.
Idle == resp.op = "none"

\* The resolver's answer for a route that is not registered.
Unrouted(op, u, pk) ==
    /\ resp' = Response(op, u, pk, 404)
    /\ NoWrite

\* GET /plants/?tags=..&care_tips=..
ListPlants(u, tagsQ, careQ) ==
    /\ Idle
    /\ IF ~Routed("plant") THEN Unrouted("list_plants", u, 0)
       ELSE /\ \E rows \in PlantQuerySet(u, tagsQ, careQ) :
                  resp' = [Response("list_plants", u, 0, 200) EXCEPT
                              !.rows = rows, !.tagsQ = tagsQ, !.careQ = careQ]
            /\ NoWrite

\* GET /plants/<pk>/
RetrievePlant(u, pk) ==
    /\ Idle
    /\ IF ~Routed("plant") THEN Unrouted("retrieve_plant", u, pk)
       ELSE /\ resp' = IF Found(PlantQuerySet(u, <<>>, <<>>), pk)
                       THEN [Response("retrieve_plant", u, pk, 200) EXCEPT
                                !.rows = <<pk>>]
                       ELSE Response("retrieve_plant", u, pk, 404)
            /\ NoWrite

\* POST /plants/
CreatePlant(u, payload) ==
    /\ Idle
    /\ IF ~Routed("plant") THEN Unrouted("create_plant", u, 0)
       ELSE IF ~IsValid(payload, FALSE)
       THEN /\ resp' = WithPayload(Response("create_plant", u, 0, 400), payload)
            /\ NoWrite
       ELSE LET db == SerializerCreate(u, payload)
            IN  /\ Commit(db)
                /\ resp' = WithPayload(
                      Response("create_plant", u, seqs.plant,
                               IF db.raised THEN 500 ELSE 201), payload)

\* PUT /plants/<pk>/ (partial = FALSE), PATCH /plants/<pk>/ (partial = TRUE);
\* the body is read after get_object().
UpdatePlant(u, pk, partial, payloads) ==
    LET op == IF partial THEN "partial_update_plant" ELSE "update_plant"
    IN  /\ Idle
        /\ IF ~Routed("plant") THEN Unrouted(op, u, pk)
           ELSE IF ~Found(PlantQuerySet(u, <<>>, <<>>), pk)
           THEN /\ resp' = Response(op, u, pk, 404)
                /\ NoWrite
           ELSE \E payload \in payloads :
                  IF ~IsValid(payload, partial)
                  THEN /\ resp' = WithPayload(Response(op, u, pk, 400), payload)
                       /\ NoWrite
                  ELSE LET db == SerializerUpdate(u, Row(plants, pk), payload)
                       IN  /\ Commit(db)
                           /\ resp' = WithPayload(
                                 Response(op, u, pk,
                                          IF db.raised THEN 500 ELSE 200), payload)

\* DELETE /plants/<pk>/: the row and its rows in the two relations
DestroyPlant(u, pk) ==
    /\ Idle
    /\ IF ~Routed("plant") THEN Unrouted("destroy_plant", u, pk)
       ELSE IF ~Found(PlantQuerySet(u, <<>>, <<>>), pk)
       THEN /\ resp' = Response("destroy_plant", u, pk, 404)
            /\ NoWrite
       ELSE /\ Commit(DeletePlant(Database, pk))
            /\ resp' = Response("destroy_plant", u, pk, 204)

\* POST /plants/<pk>/upload-image/
UploadImage(u, pk, hasImage) ==
    /\ Idle
    /\ IF ~Routed("plant") THEN Unrouted("upload_image", u, pk)
       ELSE IF ~Found(PlantQuerySet(u, <<>>, <<>>), pk)
       THEN /\ resp' = Response("upload_image", u, pk, 404)
            /\ NoWrite
       ELSE IF ~hasImage
       THEN /\ resp' = Response("upload_image", u, pk, 400)
            /\ NoWrite
       ELSE /\ Commit([Database EXCEPT
                          !.plants = (plants \ {Row(plants, pk)})
                              \cup {[Row(plants, pk) EXCEPT !.image = TRUE]}])
            /\ resp' = Response("upload_image", u, pk, 200)

\* ListModelMixin.list of a label viewset
ListLabels(op, u, param, table, links) ==
    /\ \E rows \in LabelQuerySet(table, links, u, param) :
          resp' = [Response(op, u, 0, 200) EXCEPT !.rows = rows, !.assigned = param]
    /\ NoWrite

\* UpdateModelMixin.update / partial_update of a label viewset: the status
\* and the table after the request (name = "" is a body without the name key).
UpdateLabel(table, u, pk, partial, name) ==
    IF ~Found(LabelQuerySet(table, {}, u, ""), pk)
    THEN [status |-> 404, table |-> table]
    ELSE IF name = ""
    THEN [status |-> IF partial THEN 200 ELSE 400, table |-> table]
    ELSE [status |-> 200,
          table |-> (table \ {Row(table, pk)})
                       \cup {[Row(table, pk) EXCEPT !.name = name]}]

\* DestroyModelMixin.destroy of a label viewset: the row goes, and with it its
\* rows in the relation to plants.
DestroyLabel(table, links, u, pk) ==
    IF ~Found(LabelQuerySet(table, {}, u, ""), pk)
    THEN [status |-> 404, table |-> table, links |-> links]
    ELSE [status |-> 204, table |-> table \ {Row(table, pk)},
          links |-> {l \in links : l[2] # pk}]

\* A label request's answer: what it wrote, if anything, and the response.
Answer(op, u, pk, status, db) ==
    /\ resp' = Response(op, u, pk, status)
    /\ IF db = Database THEN NoWrite ELSE Commit(db)

\* GET /tags/?assigned_only=..
ListTags(u, param) ==
    /\ Idle
    /\ IF ~Routed("tag") THEN Unrouted("list_tags", u, 0)
       ELSE ListLabels("list_tags", u, param, tags, plant_tags)

\* PUT, PATCH /tags/<pk>/
UpdateTag(u, pk, partial, name) ==
    /\ Idle
    /\ IF ~Routed("tag") THEN Unrouted("update_tag", u, pk)
       ELSE LET r == UpdateLabel(tags, u, pk, partial, name)
            IN  Answer("update_tag", u, pk, r.status,
                       [Database EXCEPT !.tags = r.table])

\* DELETE /tags/<pk>/
DestroyTag(u, pk) ==
    /\ Idle
    /\ IF ~Routed("tag") THEN Unrouted("destroy_tag", u, pk)
       ELSE LET r == DestroyLabel(tags, plant_tags, u, pk)
            IN  Answer("destroy_tag", u, pk, r.status,
                       [Database EXCEPT !.tags = r.table, !.plant_tags = r.links])

\* GET /care-tips/?assigned_only=..
ListCareTips(u, param) ==
    /\ Idle
    /\ IF ~Routed("caretip") THEN Unrouted("list_care_tips", u, 0)
       ELSE ListLabels("list_care_tips", u, param, care_tips, plant_care_tips)

\* PUT, PATCH /care-tips/<pk>/
UpdateCareTip(u, pk, partial, name) ==
    /\ Idle
    /\ IF ~Routed("caretip") THEN Unrouted("update_care_tip", u, pk)
       ELSE LET r == UpdateLabel(care_tips, u, pk, partial, name)
            IN  Answer("update_care_tip", u, pk, r.status,
                       [Database EXCEPT !.care_tips = r.table])

\* DELETE /care-tips/<pk>/
DestroyCareTip(u, pk) ==
    /\ Idle
    /\ IF ~Routed("caretip") THEN Unrouted("destroy_care_tip", u, pk)
       ELSE LET r == DestroyLabel(care_tips, plant_care_tips, u, pk)
            IN  Answer("destroy_care_tip", u, pk, r.status,
                       [Database EXCEPT !.care_tips = r.table,
                                        !.plant_care_tips = r.links])

\* The route basename of each request.
Basename ==
    [list_plants |-> "plant", retrieve_plant |-> "plant", create_plant |-> "plant",
     update_plant |-> "plant", partial_update_plant |-> "plant",
     destroy_plant |-> "plant", upload_image |-> "plant",
     list_tags |-> "tag", update_tag |-> "tag", destroy_tag |-> "tag",
     list_care_tips |-> "caretip", update_care_tip |-> "caretip",
     destroy_care_tip |-> "caretip"]

\* requests addressed to a collection; the others address the row of a pk
CollectionOps == {"list_plants", "create_plant", "list_tags", "list_care_tips"}

\* request.user of a request without a valid token
AnonymousUser == ""

\* Any request without a valid token.  The resolver picks the view first;
\* the view's initial() then runs TokenAuthentication and IsAuthenticated
\* before the handler, which is never entered.
Unauthenticated(op, pk) ==
    /\ Idle
    /\ IF ~Routed(Basename[op]) THEN Unrouted(op, AnonymousUser, pk)
       ELSE /\ resp' = Response(op, AnonymousUser, pk, 401)
            /\ NoWrite

\* The response is sent; the server is ready for the next request.
Respond ==
    /\ ~Idle
    /\ resp' = Response("none", "", 0, 0)
    /\ NoWrite

\* ---------------------------------------------------------------- specification
\* Both users exist and hold a token; the tables are empty.
Init ==
    /\ users = Users
    /\ plants = {}
    /\ tags = {}
    /\ care_tips = {}
    /\ plant_tags = {}
    /\ plant_care_tips = {}
    /\ seqs = [plant |-> 1, tag |-> 1, care_tip |-> 1]
    /\ writes = 0
    /\ resp = Response("none", "", 0, 0)

Next ==
    \/ \E u \in Users, tq \in TagQueries, cq \in CareTipQueries : ListPlants(u, tq, cq)
    \/ \E u \in Users, pk \in PlantIds : RetrievePlant(u, pk)
    \/ \E u \in Users, payload \in Payloads : CreatePlant(u, payload)
    \/ \E u \in Users, pk \in PlantIds, partial \in BOOLEAN :
          UpdatePlant(u, pk, partial, Payloads)
    \/ \E u \in Users, pk \in PlantIds : DestroyPlant(u, pk)
    \/ \E u \in Users, pk \in PlantIds, hasImage \in BOOLEAN : UploadImage(u, pk, hasImage)
    \/ \E u \in Users, param \in AssignedParams : ListTags(u, param)
    \/ \E u \in Users, pk \in TagIds, partial \in BOOLEAN, name \in Names \cup {""} :
          UpdateTag(u, pk, partial, name)
    \/ \E u \in Users, pk \in TagIds : DestroyTag(u, pk)
    \/ \E u \in Users, param \in AssignedParams : ListCareTips(u, param)
    \/ \E u \in Users, pk \in CareTipIds, partial \in BOOLEAN, name \in Names \cup {""} :
          UpdateCareTip(u, pk, partial, name)
    \/ \E u \in Users, pk \in CareTipIds : DestroyCareTip(u, pk)
    \/ \E op \in DOMAIN Basename :
          \E pk \in IF op \in CollectionOps THEN {0} ELSE PlantIds :
              Unauthenticated(op, pk)
    \/ Respond

Spec == Init /\ [][Next]_vars

\* ---------------------------------------------------------------- user accounts
\* One call of the user manager: the table it finds and its argument are
\* any of the bounded ones, and the call is made once.
Call(op, arg) == [op |-> op, arg |-> arg, status |-> "called"]
Return(call, raised) ==
    [call EXCEPT !.status = IF raised = "" THEN "returned" ELSE raised]

\* user tables earlier calls can have left
StoredEmails == {<<"a", "@", "a">>, <<"A", "@", "a">>}
UserTables == {{UserRow(e, FALSE) : e \in S} : S \in SUBSET StoredEmails}

CallCreateUser ==
    /\ resp.op = "create_user"
    /\ resp.status = "called"
    /\ LET r == CreateUser(users, resp.arg)
       IN  /\ users' = r.users
           /\ resp' = Return(resp, r.raised)
    /\ UNCHANGED <<plants, tags, care_tips, plant_tags, plant_care_tips, seqs, writes>>

CallCreateSuperuser ==
    /\ resp.op = "create_superuser"
    /\ resp.status = "called"
    /\ LET r == CreateSuperuser(users, resp.arg)
       IN  /\ users' = r.users
           /\ resp' = Return(resp, r.raised)
    /\ UNCHANGED <<plants, tags, care_tips, plant_tags, plant_care_tips, seqs, writes>>

UserInit ==
    /\ users \in UserTables
    /\ resp \in {Call(op, arg) : op \in {"create_user", "create_superuser"},
                                 arg \in EmailArgs}
    /\ plants = {}
    /\ tags = {}
    /\ care_tips = {}
    /\ plant_tags = {}
    /\ plant_care_tips = {}
    /\ seqs = [plant |-> 1, tag |-> 1, care_tip |-> 1]
    /\ writes = 0

UserNext == CallCreateUser \/ CallCreateSuperuser

UserSpec == UserInit /\ [][UserNext]_vars

\* ---------------------------------------------------------------- concurrent plant writes
\* Two plant writes of one user served at the same time (two workers), and
\* a reader.  Each database call of a handler is a step of its own; the
\* calls commit one by one, and nothing orders the calls of one request with
\* those of the other.  resp holds each request's frame: what it was sent,
\* the names it still has to attach, where it stands, and its answer.
Writers == {"w1", "w2"}
Reader == "reader"
Writer == "u1"

\* The user has one plant, attached to the one tag they have.
ExistingNames == {"b"}

Frame(kind, pk, names) ==
    [kind |-> kind, pk |-> pk, names |-> names, todo |-> names, pc |-> "begin",
     found |-> 0, status |-> 0, seen |-> {}]

\* POST /plants/ with a title and a list of tags, PATCH /plants/1/ with a
\* list of tags
WriteFrames ==
    {Frame(kind, IF kind = "update" THEN 1 ELSE 0, names) :
        kind \in {"create", "update"}, names \in NameLists \ {<<>>}}

Goto(w, pc) == resp' = [resp EXCEPT ![w].pc = pc]
Finish(w, status) == resp' = [resp EXCEPT ![w].pc = "done", ![w].status = status]

UnchangedByWriters == UNCHANGED <<users, care_tips, plant_care_tips, writes>>

\* create: Plant.objects.create(**validated_data);
\* update: instance.tags.clear()
Begin(w) ==
    /\ resp[w].pc = "begin"
    /\ IF resp[w].kind = "create"
       THEN /\ plants' = plants \cup {Plant(seqs.plant, Writer, "t1", "")}
            /\ seqs' = [seqs EXCEPT !.plant = @ + 1]
            /\ resp' = [resp EXCEPT ![w].pk = seqs.plant, ![w].pc = "get"]
            /\ UNCHANGED plant_tags
       ELSE /\ plant_tags' = Clear(plant_tags, resp[w].pk)
            /\ Goto(w, "get")
            /\ UNCHANGED <<plants, seqs>>
    /\ UNCHANGED tags
    /\ UnchangedByWriters

\* get_or_create, the get: the SELECT of the rows of that user and name
GetLabel(w) ==
    /\ resp[w].pc = "get"
    /\ IF resp[w].todo = <<>>
       THEN IF resp[w].kind = "update" THEN Goto(w, "save") ELSE Finish(w, 201)
       ELSE LET found == Matching(tags, Writer, Head(resp[w].todo))
            IN  IF Cardinality(found) > 1 THEN Finish(w, 500)
                ELSE IF found = {} THEN Goto(w, "create")
                ELSE resp' = [resp EXCEPT ![w].pc = "add",
                                          ![w].found = (CHOOSE r \in found : TRUE).id]
    /\ UNCHANGED <<plants, tags, plant_tags, seqs>>
    /\ UnchangedByWriters

\* get_or_create, the create: the INSERT after a get that found no row.  No
\* constraint of the table can refuse it.
CreateLabel(w) ==
    /\ resp[w].pc = "create"
    /\ tags' = tags \cup {Label(seqs.tag, Head(resp[w].todo), Writer)}
    /\ seqs' = [seqs EXCEPT !.tag = @ + 1]
    /\ resp' = [resp EXCEPT ![w].pc = "add", ![w].found = seqs.tag]
    /\ UNCHANGED <<plants, plant_tags>>
    /\ UnchangedByWriters

\* plant.tags.add(tag_obj)
AddLabel(w) ==
    /\ resp[w].pc = "add"
    /\ plant_tags' = plant_tags \cup {<<resp[w].pk, resp[w].found>>}
    /\ resp' = [resp EXCEPT ![w].pc = "get", ![w].todo = Tail(@)]
    /\ UNCHANGED <<plants, tags, seqs>>
    /\ UnchangedByWriters

\* instance.save(): the request carried no scalar field
Save(w) ==
    /\ resp[w].pc = "save"
    /\ Finish(w, 200)
    /\ UNCHANGED <<plants, tags, plant_tags, seqs>>
    /\ UnchangedByWriters

\* GET /plants/1/ by the same user: the names of the tags in the answer
ReadPlant ==
    /\ resp[Reader].pc = "begin"
    /\ resp' = [resp EXCEPT ![Reader].pc = "done", ![Reader].status = 200,
                             ![Reader].seen = NamesOf(Attached(tags, plant_tags, 1))]
    /\ UNCHANGED <<plants, tags, plant_tags, seqs>>
    /\ UnchangedByWriters

ConcInit ==
    /\ users = Users
    /\ plants = {Plant(1, Writer, "t1", "")}
    /\ tags = {Label(1, n, Writer) : n \in ExistingNames}
    /\ plant_tags = {<<1, 1>>}
    /\ care_tips = {}
    /\ plant_care_tips = {}
    /\ seqs = [plant |-> 2, tag |-> 2, care_tip |-> 1]
    /\ writes = 0
    /\ \E f \in [Writers -> WriteFrames] :
          resp = [c \in Writers \cup {Reader} |->
                     IF c = Reader THEN Frame("retrieve", 1, <<>>) ELSE f[c]]

ConcNext ==
    \/ \E w \in Writers : Begin(w)
    \/ \E w \in Writers : GetLabel(w)
    \/ \E w \in Writers : CreateLabel(w)
    \/ \E w \in Writers : AddLabel(w)
    \/ \E w \in Writers : Save(w)
    \/ ReadPlant

ConcSpec == ConcInit /\ [][ConcNext]_vars

\* ---------------------------------------------------------------- properties
PlantDetailOps ==
    {"retrieve_plant", "update_plant", "partial_update_plant", "destroy_plant",
     "upload_image"}
PlantUpdateOps == {"update_plant", "partial_update_plant"}

RowsOf(table, user) == {r \in table : r.user = user}

\* a plant has a label whose id is listed in the query parameter
HasListed(links, pk, qs) == \E i \in 1..Len(qs) : <<pk, ToInt(qs[i])>> \in links
PassesPlantFilters(pk, tagsQ, careQ) ==
    /\ tagsQ # <<>> => HasListed(plant_tags, pk, tagsQ)
    /\ careQ # <<>> => HasListed(plant_care_tips, pk, careQ)
PassesAssigned(links, id, param) ==
    param \in {"", "0"} \/ \E l \in links : l[2] = id

ExpectedPlants(user, tagsQ, careQ) ==
    {r.id : r \in {q \in RowsOf(plants, user) :
                      PassesPlantFilters(q.id, tagsQ, careQ)}}
ExpectedLabels(table, links, user, param) ==
    {r.id : r \in {q \in RowsOf(table, user) : PassesAssigned(links, q.id, param)}}

\* C1: a list request on plants, tags or care tips by user U returns the
\* rows U owns that pass the request's filters, all of them and no other.
C1_ListsReturnOwnRows ==
    /\ resp.op = "list_plants" =>
          Range(resp.rows) = ExpectedPlants(resp.user, resp.tagsQ, resp.careQ)
    /\ resp.op = "list_tags" =>
          Range(resp.rows) = ExpectedLabels(tags, plant_tags, resp.user, resp.assigned)
    /\ resp.op = "list_care_tips" =>
          Range(resp.rows) =
              ExpectedLabels(care_tips, plant_care_tips, resp.user, resp.assigned)

\* The same of the two lists the router serves (plants, tags).
ServedListsReturnOwnRows ==
    /\ resp.op = "list_plants" =>
          Range(resp.rows) = ExpectedPlants(resp.user, resp.tagsQ, resp.careQ)
    /\ resp.op = "list_tags" =>
          Range(resp.rows) = ExpectedLabels(tags, plant_tags, resp.user, resp.assigned)

\* the request just answered is a user's and addresses a row of another user
CrossOwner ==
    /\ resp'.user \in Users
    /\ \/ /\ resp'.op \in PlantDetailOps
          /\ \E r \in plants : r.id = resp'.pk /\ r.user # resp'.user
       \/ /\ resp'.op \in {"update_tag", "destroy_tag"}
          /\ \E r \in tags : r.id = resp'.pk /\ r.user # resp'.user
       \/ /\ resp'.op \in {"update_care_tip", "destroy_care_tip"}
          /\ \E r \in care_tips : r.id = resp'.pk /\ r.user # resp'.user

\* C2: a retrieve, update, delete or image upload addressed to another
\* user's plant, and a rename or delete addressed to another user's tag or
\* care tip, is answered not-found and changes no row and no attachment.
C2_CrossOwnerNotFound ==
    [][CrossOwner => resp'.status = 404 /\ UNCHANGED store]_vars

C2_Witness ==
    /\ resp.op \in {"destroy_plant", "upload_image", "partial_update_plant"}
    /\ resp.status = 404
    /\ \E r \in plants : r.id = resp.pk /\ r.user # resp.user

\* C3: a plant's owner is the user who created it, and no request changes it.
C3_OwnerNeverChanges ==
    [][/\ \A r \in plants : \A q \in plants' : q.id = r.id => q.user = r.user
       /\ \A q \in plants' :
             q.id \notin Ids(plants) => resp'.op = "create_plant" /\ q.user = resp'.user
      ]_vars

C3_Witness ==
    /\ resp.op \in PlantUpdateOps
    /\ resp.status = 200
    /\ "user" \in resp.keys
    /\ resp.owner # resp.user
    /\ \E r \in plants : r.id = resp.pk /\ r.user = resp.user

\* the effect of an inline label list on one label table and its relation:
\* every listed name U already owned is attached through a row that was
\* there, every other listed name through one new row of U's, and the plant
\* is attached to the listed names and nothing else.
InlineListApplied(names, user, pk, table, tableAfter, linksAfter) ==
    LET listed == Range(names)
        owned == NamesOf(RowsOf(table, user))
        attached == Attached(tableAfter, linksAfter, pk)
    IN  /\ table \subseteq tableAfter
        /\ Cardinality(tableAfter) = Cardinality(table) + Cardinality(listed \ owned)
        /\ \A r \in tableAfter \ table : r.user = user /\ r.name \in listed \ owned
        /\ NamesOf(attached) = listed
        /\ Cardinality(attached) = Cardinality(listed)
        /\ \A r \in attached : r.user = user /\ (r.name \in owned => r \in table)

\* C4: creating a plant with inline lists of tag and care tip names attaches,
\* for each listed name, the row the user already owns or else one new row of
\* the user's; the label tables grow by the distinct listed names the user did
\* not own, and the new plant is attached to exactly the listed names.
C4_CreateGetsOrCreatesLabels ==
    [][resp'.op = "create_plant" /\ resp'.status \notin {400, 404} =>
          /\ InlineListApplied(resp'.tags, resp'.user, resp'.pk,
                               tags, tags', plant_tags')
          /\ InlineListApplied(resp'.care_tips, resp'.user, resp'.pk,
                               care_tips, care_tips', plant_care_tips')
      ]_vars

\* The same of the creations that are answered 201.
CreatedGetsOrCreatesLabels ==
    [][resp'.op = "create_plant" /\ resp'.status = 201 =>
          /\ InlineListApplied(resp'.tags, resp'.user, resp'.pk,
                               tags, tags', plant_tags')
          /\ InlineListApplied(resp'.care_tips, resp'.user, resp'.pk,
                               care_tips, care_tips', plant_care_tips')
      ]_vars

\* C5: a successful plant update that carries the tags (care_tips) key leaves
\* the plant attached to exactly the labels named in the list, got or created
\* for the requesting user, and to no label it was attached to before that is
\* not named; an empty list leaves it none.  No label row is deleted.
C5_UpdateReplacesAttachments ==
    [][resp'.op \in PlantUpdateOps /\ resp'.status = 200 =>
          /\ "tags" \in resp'.keys =>
                /\ InlineListApplied(resp'.tags, resp'.user, resp'.pk,
                                     tags, tags', plant_tags')
                /\ \A r \in Attached(tags, plant_tags, resp'.pk) :
                      r.name \notin Range(resp'.tags) =>
                          <<resp'.pk, r.id>> \notin plant_tags'
                /\ resp'.tags = <<>> => Attached(tags', plant_tags', resp'.pk) = {}
          /\ "care_tips" \in resp'.keys =>
                /\ InlineListApplied(resp'.care_tips, resp'.user, resp'.pk,
                                     care_tips, care_tips', plant_care_tips')
                /\ \A r \in Attached(care_tips, plant_care_tips, resp'.pk) :
                      r.name \notin Range(resp'.care_tips) =>
                          <<resp'.pk, r.id>> \notin plant_care_tips'
                /\ resp'.care_tips = <<>> =>
                      Attached(care_tips', plant_care_tips', resp'.pk) = {}
          /\ tags \subseteq tags'
          /\ care_tips \subseteq care_tips'
      ]_vars

\* an update replaced a tag of the plant: the answer names one tag, the
\* plant has it, and the user has another tag that no plant has
C5_Witness ==
    /\ resp.op \in PlantUpdateOps
    /\ resp.status = 200
    /\ "tags" \in resp.keys
    /\ Len(resp.tags) = 1
    /\ \E r \in RowsOf(tags, resp.user) :
          /\ r.name # resp.tags[1]
          /\ \A l \in plant_tags : l[2] # r.id
    /\ NamesOf(Attached(tags, plant_tags, resp.pk)) = {resp.tags[1]}

\* C6: a plant update without the tags key leaves the tag attachments and
\* the tag rows as they were, and likewise for care_tips; a partial update
\* leaves every scalar field that is not in the payload as it was.
C6_OmittedKeysUntouched ==
    [][resp'.op \in PlantUpdateOps /\ resp'.status # 404 =>
          /\ "tags" \notin resp'.keys => tags' = tags /\ plant_tags' = plant_tags
          /\ "care_tips" \notin resp'.keys =>
                care_tips' = care_tips /\ plant_care_tips' = plant_care_tips
          /\ resp'.op = "partial_update_plant" =>
                \A r \in plants : r.id = resp'.pk =>
                    \E q \in plants' :
                        /\ q.id = r.id
                        /\ "title" \notin resp'.keys => q.title = r.title
                        /\ "link" \notin resp'.keys => q.link = r.link
                        /\ q.image = r.image
      ]_vars

\* a partial update that carried the title alone wrote a plant that has a
\* link and a tag
C6_Witness ==
    /\ resp.op = "partial_update_plant"
    /\ resp.status = 200
    /\ resp.keys = {"title"}
    /\ \E r \in plants : r.id = resp.pk /\ r.link # "" /\ r.title = "t2"
    /\ Attached(tags, plant_tags, resp.pk) # {}

\* C7: deleting a plant removes that plant's row and its attachments only:
\* every tag and care tip row is still there, and every other plant and its
\* attachments are as they were.
C7_DeleteKeepsLabels ==
    [][resp'.op = "destroy_plant" /\ resp'.status = 204 =>
          /\ tags' = tags
          /\ care_tips' = care_tips
          /\ plants' = {r \in plants : r.id # resp'.pk}
          /\ plant_tags' = {l \in plant_tags : l[1] # resp'.pk}
          /\ plant_care_tips' = {l \in plant_care_tips : l[1] # resp'.pk}
      ]_vars

\* a plant was deleted; a tag of its owner's, attached to nothing, is there
\* and so is the owner's other plant with its tag
C7_Witness ==
    /\ resp.op = "destroy_plant"
    /\ resp.status = 204
    /\ \E r \in RowsOf(tags, resp.user) : \A l \in plant_tags : l[2] # r.id
    /\ \E q \in RowsOf(plants, resp.user) : Attached(tags, plant_tags, q.id) # {}

\* C8: a plant list with tags and/or care_tips id lists returns exactly the
\* requester's plants that have a listed tag (when given) and a listed care
\* tip (when given), each once, in descending id order.
C8_FilteredListExact ==
    resp.op = "list_plants" /\ resp.user \in Users =>
        /\ resp.status = 200
        /\ Range(resp.rows) = ExpectedPlants(resp.user, resp.tagsQ, resp.careQ)
        /\ \A i, j \in 1..Len(resp.rows) : i < j => resp.rows[i] > resp.rows[j]

\* a filtered list returned a plant that has two of the listed tags and
\* left out a plant of the requester's that has none
C8_Witness ==
    /\ resp.op = "list_plants"
    /\ Len(resp.tagsQ) = 2
    /\ \E pk \in Range(resp.rows) :
          Cardinality({l \in plant_tags :
                          l[1] = pk /\ l[2] \in Range(ParamsToInts(resp.tagsQ))}) = 2
    /\ \E q \in RowsOf(plants, resp.user) : q.id \notin Range(resp.rows)

\* C9: a tag or care tip list with the assigned-only filter on returns
\* exactly the requester's labels attached to at least one plant, each once;
\* with the filter off or absent it returns all of the requester's labels.
C9_AssignedOnlyExact ==
    /\ resp.op = "list_tags" =>
          /\ Range(resp.rows) = ExpectedLabels(tags, plant_tags, resp.user, resp.assigned)
          /\ Cardinality(Range(resp.rows)) = Len(resp.rows)
    /\ resp.op = "list_care_tips" =>
          /\ Range(resp.rows) =
                ExpectedLabels(care_tips, plant_care_tips, resp.user, resp.assigned)
          /\ Cardinality(Range(resp.rows)) = Len(resp.rows)

\* The same of the tag list alone.
TagsAssignedOnlyExact ==
    resp.op = "list_tags" /\ resp.user \in Users =>
        /\ resp.status = 200
        /\ Range(resp.rows) = ExpectedLabels(tags, plant_tags, resp.user, resp.assigned)
        /\ Cardinality(Range(resp.rows)) = Len(resp.rows)

\* C10: what is routed and served for tags is routed and served for care
\* tips: a list is answered 200, and a rename or delete of a care tip the
\* requester owns is not answered not-found.
C10_CareTipsServedLikeTags ==
    /\ resp.op = "list_care_tips" => resp.status = 200
    /\ resp.op \in {"update_care_tip", "destroy_care_tip"} =>
          (resp.status = 404 =>
              ~\E r \in care_tips : r.id = resp.pk /\ r.user = resp.user)

\* C11: a request to a plant, tag or care tip endpoint without valid
\* authentication is answered unauthorized and leaves the stored users,
\* plants, labels and attachments as they were.
C11_UnauthenticatedIsUnauthorized ==
    [][resp'.op \in DOMAIN Basename /\ resp'.user = AnonymousUser =>
          resp'.status = 401 /\ UNCHANGED store]_vars

\* The same of the endpoints the router serves (plants, tags).
ServedUnauthenticatedIsUnauthorized ==
    [][/\ resp'.op \in DOMAIN Basename
       /\ resp'.user = AnonymousUser
       /\ Routed(Basename[resp'.op])
       => resp'.status = 401 /\ UNCHANGED store]_vars

\* No unauthenticated request, served or not, writes anything.
UnauthenticatedWritesNothing ==
    [][resp'.op \in DOMAIN Basename /\ resp'.user = AnonymousUser =>
          UNCHANGED <<store, writes>>]_vars

\* a call of the user manager is about to run; the rows it adds
Calling == resp.op \in {"create_user", "create_superuser"} /\ resp.status = "called"
NewRows == users' \ users

\* C12: create_user with an empty or missing email raises a value error and
\* the stored users after the call are the stored users before it.
C12_EmptyEmailRaises ==
    [][Calling /\ Falsy(resp.arg) =>
          resp'.status = "ValueError" /\ users' = users]_vars

\* a call without an email raised over a table that has users
C12_Witness ==
    /\ resp.op = "create_user"
    /\ resp.status = "ValueError"
    /\ resp.arg = None
    /\ Cardinality(users) = 2

\* s keeps the characters of e up to its last '@' and has those after it in
\* lowercase
DomainLowered(e, s) ==
    /\ Len(s) = Len(e)
    /\ \A i \in 1..Len(e) :
          s[i] = IF i <= LastAt(e) THEN e[i] ELSE Lower[e[i]]

SameOwner(table, links) ==
    \A l \in links :
        \E p \in plants, r \in table :
            p.id = l[1] /\ r.id = l[2] /\ p.user = r.user

\* C14: in every reachable state every tag and care tip attached to a plant
\* has the owner of that plant.
C14_AttachedLabelsSameOwner ==
    /\ SameOwner(tags, plant_tags)
    /\ SameOwner(care_tips, plant_care_tips)

\* a user's plant got a tag of a name that the other user already had a tag
\* of, attached to a plant of theirs
C14_Witness ==
    \E l, m \in plant_tags :
        /\ Row(plants, l[1]).user # Row(plants, m[1]).user
        /\ Row(tags, l[2]).name = Row(tags, m[2]).name
        /\ Row(plants, m[1]).user = resp.user
        /\ resp.op \in {"create_plant"} \cup PlantUpdateOps
        /\ resp.pk = m[1]
        /\ l[2] < m[2]

\* no two rows of a label table have the same owner and the same name
NoDuplicateNames(table) ==
    \A r, q \in table : r.user = q.user /\ r.name = q.name => r = q

\* C15: no user owns two tags of the same name, nor two care tips of the
\* same name, in any reachable state, so that get_or_create finds at most one
\* row.
C15_NoDuplicateLabelNames ==
    /\ NoDuplicateNames(tags)
    /\ NoDuplicateNames(care_tips)

\* Plant writes alone make no duplicate: a plant request that finds none
\* leaves none.
PlantWritesKeepNamesDistinct ==
    [][/\ resp'.op \in {"create_plant"} \cup PlantUpdateOps
       /\ NoDuplicateNames(tags)
       /\ NoDuplicateNames(care_tips)
       => NoDuplicateNames(tags') /\ NoDuplicateNames(care_tips')]_vars

AllDone == \A w \in Writers : resp[w].pc = "done"
NamedByBoth(n) == \A w \in Writers : n \in Range(resp[w].names)

\* C16: when two plant writes of one user that both name a label the user
\* does not have yet run at the same time, then however their steps
\* interleave, one row of that owner and name exists afterwards and both
\* plants are attached to it.
C16_OneRowUnderInterleaving ==
    AllDone =>
        \A n \in Names \ ExistingNames :
            NamedByBoth(n) =>
                /\ Cardinality(Matching(tags, Writer, n)) = 1
                /\ \A w \in Writers :
                      \E r \in Matching(tags, Writer, n) :
                          <<resp[w].pk, r.id>> \in plant_tags

\* an update of a plant failed, answered 500
UpdateFailed == resp'.op \in PlantUpdateOps /\ resp'.status = 500

\* C17: a plant update that carries tags or care_tips and fails after
\* validation leaves the plant's attachments, its scalar fields and the
\* label rows as they were before the request.
C17_UpdateAllOrNothing ==
    [][UpdateFailed =>
          UNCHANGED <<plants, tags, care_tips, plant_tags, plant_care_tips>>]_vars

\* What a failed update does keep: the plant row and the label rows there
\* were.
FailedUpdateKeepsRows ==
    [][UpdateFailed =>
          plants' = plants /\ tags \subseteq tags' /\ care_tips \subseteq care_tips']_vars

\* C17, the reader: the plant had a tag before the updates and every update
\* names one, so a reader at any moment sees the plant with a tag.
ReaderNeverSeesCleared ==
    resp[Reader].pc = "done" => resp[Reader].seen # {}

====
